---------------------------- MODULE Spec2Model ----------------------------
(***************************************************************************)
(* Sleeping-barber simulation (barbershop.py): the shared ShopState, the   *)
(* two semaphores, the stop event, and the barber, generator and customer  *)
(* threads, each modelled as a program counter over the statements of its  *)
(* worker function.  A `with state.lock:` block is a step that takes the   *)
(* lock followed by the steps of its body, the last of which releases it.  *)
(***************************************************************************)
EXTENDS Integers, Sequences, FiniteSets

\* ------------------------------------------------------------------ bounds
\* Number of customer ids the generator hands out before it stops spawning.
MaxCustomers == 3
\* ShopState.capacity: chairs in the waiting room.
Capacity == 2
\* Number of sleep slices of one haircut (cut_time / step).
CutSlices == 1
\* Last instant of the clock, in units of 0.05 s.
MaxClock == 20

\* ------------------------------------------------------------- identities
\* Optional[int] = None for current_customer / haircut_start_time.
None == 0
\* Lock holders other than customer threads (customer i holds the lock as i).
BarberThread == -1
GeneratorThread == -2
UiThread == -3

CustomerIds == 1..MaxCustomers

VARIABLES
    \* ShopState
    arrival_speed, waiting, served, left, barber_status, current_customer,
    haircut_start_time, lock,
    \* module-level semaphores and the stop event
    customers_sem, barber_sem, stop_event,
    \* barber_worker locals
    bpc, cid, remaining,
    \* customer_worker threads: position of each
    cpc,
    \* generator_worker locals
    gpc, counter, speed,
    \* history: ids in the order appended, dequeued, counted served, counted left
    admitOrder, chairOrder, servedOrder, leftOrder,
    \* history: how many customers had been spawned when stop_event was set
    spawnedAtStop,
    \* time.monotonic(), in units of the generator's 0.05 s sleep
    clock,
    \* generator_worker local of the pacing: the scheduled next emission
    next_emit,
    \* run_curses input loop: its position and the key read by getch()
    upc, ch,
    \* history: for each spawn, the clock reading and the speed of its iteration
    emitLog

shopVars == <<arrival_speed, waiting, served, left, barber_status,
              current_customer, haircut_start_time>>
syncVars == <<customers_sem, barber_sem, stop_event>>
barberVars == <<bpc, cid, remaining>>
genVars == <<gpc, counter, speed>>
histVars == <<admitOrder, chairOrder, servedOrder, leftOrder, spawnedAtStop>>
paceVars == <<clock, next_emit, upc, ch, emitLog>>
vars == <<shopVars, lock, syncVars, barberVars, cpc, genVars, histVars,
          paceVars>>

\* ------------------------------------------------------------------- Init
\* ShopState.__init__, the two Semaphore(0), a fresh Event, threads not yet
\* past their first statement.
Init ==
    /\ arrival_speed = 3
    /\ waiting = <<>>
    /\ served = 0
    /\ left = 0
    /\ barber_status = "sleeping"
    /\ current_customer = None
    /\ haircut_start_time = None
    /\ lock = None
    /\ customers_sem = 0
    /\ barber_sem = 0
    /\ stop_event = FALSE
    /\ bpc = "loop"
    /\ cid = None
    /\ remaining = 0
    /\ cpc = [i \in CustomerIds |-> "unborn"]
    /\ gpc = "loop"
    /\ counter = 1
    /\ speed = 3
    /\ admitOrder = <<>>
    /\ chairOrder = <<>>
    /\ servedOrder = <<>>
    /\ leftOrder = <<>>
    /\ spawnedAtStop = 0
    /\ clock = 0
    /\ next_emit = 0
    /\ upc = "input"
    /\ ch = None
    /\ emitLog = <<>>

\* ---------------------------------------------------------------- helpers
\* threading.Lock: free, taken by thread t on entering a `with state.lock:`
\* block (which blocks while another thread holds it), released on leaving.
LockFree == lock = None
\* A lock that excludes nobody.
Acquire_NoExclusion(t) == lock' = t
Acquire(t) == LockFree /\ lock' = t
Release(t) == lock' = None

\* Off by one: admits into a full room.
CanAdmit_OffByOne(w) == Len(w) <= Capacity
\* len(state.waiting) < state.capacity
CanAdmit(w) == Len(w) < Capacity

\* Reads the front without removing it.
PopLeft_Peek(w) == <<Head(w), w>>
\* deque.pop(): takes the newest arrival.
PopLeft_Right(w) == <<w[Len(w)], SubSeq(w, 1, Len(w) - 1)>>
\* deque.popleft(): <<the element removed, the deque that remains>>.
PopLeft(w) == <<Head(w), Tail(w)>>

\* Never goes back to sleeping.
StatusAfterCut_AlwaysCutting(w) == "cutting"
\* "sleeping" if not state.waiting else "cutting"
StatusAfterCut(w) == IF w = <<>> THEN "sleeping" ELSE "cutting"

\* time.monotonic() as stored in haircut_start_time: some reading, not None.
ClockReading == 1

\* ----------------------------------------------------------- barber_worker
\* while not stop_event.is_set():
BarberLoop ==
    /\ bpc = "loop" /\ ~stop_event
    /\ bpc' = "acquire"
    /\ UNCHANGED <<shopVars, lock, syncVars, cid, remaining, cpc, genVars,
                   histVars, paceVars>>

\* the loop condition fails: graceful exit
BarberExit ==
    /\ bpc = "loop" /\ stop_event
    /\ bpc' = "exit"
    /\ UNCHANGED <<shopVars, lock, syncVars, cid, remaining, cpc, genVars,
                   histVars, paceVars>>

\* acquired = customers_sem.acquire(timeout=0.1), a unit was there
BarberAcquire ==
    /\ bpc = "acquire" /\ customers_sem > 0
    /\ customers_sem' = customers_sem - 1
    /\ bpc' = "deq_lock"
    /\ UNCHANGED <<shopVars, lock, barber_sem, stop_event, cid, remaining, cpc,
                   genVars, histVars, paceVars>>

\* ... the wait timed out with the count at zero
BarberTimeout ==
    /\ bpc = "acquire" /\ customers_sem = 0
    /\ bpc' = "idle_lock"
    /\ UNCHANGED <<shopVars, lock, syncVars, cid, remaining, cpc, genVars,
                   histVars, paceVars>>

\* if not acquired: with state.lock:
BarberIdleLock ==
    /\ bpc = "idle_lock"
    /\ Acquire(BarberThread)
    /\ bpc' = "idle"
    /\ UNCHANGED <<shopVars, syncVars, cid, remaining, cpc, genVars,
                   histVars, paceVars>>

\* The timeout branch marks the barber asleep whenever the chair is empty.
BarberIdle_AlwaysSleeps ==
    /\ bpc = "idle"
    /\ barber_status' = IF current_customer = None
                           THEN "sleeping" ELSE barber_status
    /\ Release(BarberThread)
    /\ bpc' = "loop"
    /\ UNCHANGED <<arrival_speed, waiting, served, left, current_customer,
                   haircut_start_time, syncVars, cid, remaining, cpc, genVars,
                   histVars, paceVars>>

\* if not state.waiting and state.barber_status != "cutting": sleeping; continue
BarberIdle ==
    /\ bpc = "idle"
    /\ barber_status' = IF waiting = <<>> /\ barber_status # "cutting"
                        THEN "sleeping" ELSE barber_status
    /\ Release(BarberThread)
    /\ bpc' = "loop"
    /\ UNCHANGED <<arrival_speed, waiting, served, left, current_customer,
                   haircut_start_time, syncVars, cid, remaining, cpc, genVars,
                   histVars, paceVars>>

\* with state.lock:  (the dequeue block)
BarberDeqLock ==
    /\ bpc = "deq_lock"
    /\ Acquire(BarberThread)
    /\ bpc' = "dequeue"
    /\ UNCHANGED <<shopVars, syncVars, cid, remaining, cpc, genVars,
                   histVars, paceVars>>

\* if state.waiting: cid = state.waiting.popleft()   else: continue
BarberDequeue ==
    /\ bpc = "dequeue"
    /\ IF waiting # <<>>
       THEN /\ cid' = PopLeft(waiting)[1]
            /\ waiting' = PopLeft(waiting)[2]
            /\ bpc' = "mark"
            /\ UNCHANGED lock
       ELSE /\ Release(BarberThread)
            /\ bpc' = "loop"
            /\ UNCHANGED <<cid, waiting>>
    /\ UNCHANGED <<arrival_speed, served, left, barber_status, current_customer,
                   haircut_start_time, syncVars, remaining, cpc, genVars,
                   histVars, paceVars>>

\* The status is left as it was.
BarberMark_Skipped ==
    /\ bpc = "mark"
    /\ bpc' = "seat"
    /\ UNCHANGED <<shopVars, lock, syncVars, cid, remaining, cpc, genVars,
                   histVars, paceVars>>

\* state.barber_status = "cutting"
BarberMark ==
    /\ bpc = "mark"
    /\ barber_status' = "cutting"
    /\ bpc' = "seat"
    /\ UNCHANGED <<arrival_speed, waiting, served, left, current_customer,
                   haircut_start_time, lock, syncVars, cid, remaining, cpc,
                   genVars, histVars, paceVars>>

\* state.current_customer = cid; state.haircut_start_time = time.monotonic()
BarberSeat ==
    /\ bpc = "seat"
    /\ current_customer' = cid
    /\ haircut_start_time' = ClockReading
    /\ chairOrder' = Append(chairOrder, cid)
    /\ bpc' = "signal"
    /\ UNCHANGED <<arrival_speed, waiting, served, left, barber_status, lock,
                   syncVars, cid, remaining, cpc, genVars, admitOrder,
                   servedOrder, leftOrder, spawnedAtStop,
                   paceVars>>

\* The slicing loop is indented into the block: the lock is kept.
BarberSignal_KeepsLock ==
    /\ bpc = "signal"
    /\ barber_sem' = barber_sem + 1
    /\ remaining' = CutSlices
    /\ bpc' = "cut"
    /\ UNCHANGED <<shopVars, lock, customers_sem, stop_event, cid, cpc, genVars,
                   histVars, paceVars>>

\* barber_sem.release(); the block ends; remaining = state.cut_time
BarberSignal ==
    /\ bpc = "signal"
    /\ barber_sem' = barber_sem + 1
    /\ Release(BarberThread)
    /\ remaining' = CutSlices
    /\ bpc' = "cut"
    /\ UNCHANGED <<shopVars, customers_sem, stop_event, cid, cpc, genVars,
                   histVars, paceVars>>

\* while remaining > 0 and not stop_event.is_set(): sleep(step); remaining -= step
BarberCutSlice ==
    /\ bpc = "cut" /\ remaining > 0 /\ ~stop_event
    /\ remaining' = remaining - 1
    /\ UNCHANGED <<shopVars, lock, syncVars, bpc, cid, cpc, genVars,
                   histVars, paceVars>>

\* On shutdown the barber leaves the slicing loop and the thread at once.
BarberCutEnd_AbandonsOnStop ==
    /\ bpc = "cut" /\ ~(remaining > 0 /\ ~stop_event)
    /\ bpc' = IF stop_event THEN "exit" ELSE "fin_lock"
    /\ UNCHANGED <<shopVars, lock, syncVars, cid, remaining, cpc, genVars,
                   histVars, paceVars>>

\* the slicing loop's condition fails
BarberCutEnd ==
    /\ bpc = "cut" /\ ~(remaining > 0 /\ ~stop_event)
    /\ bpc' = "fin_lock"
    /\ UNCHANGED <<shopVars, lock, syncVars, cid, remaining, cpc, genVars,
                   histVars, paceVars>>

\* with state.lock:  (the finish block)
BarberFinLock ==
    /\ bpc = "fin_lock"
    /\ Acquire(BarberThread)
    /\ bpc' = "finish"
    /\ UNCHANGED <<shopVars, syncVars, cid, remaining, cpc, genVars,
                   histVars, paceVars>>

\* if state.current_customer == cid: state.current_customer = None;
\* state.haircut_start_time = None
BarberFinish ==
    /\ bpc = "finish"
    /\ IF current_customer = cid
       THEN /\ current_customer' = None
            /\ haircut_start_time' = None
            /\ bpc' = "count"
            /\ UNCHANGED lock
       ELSE /\ Release(BarberThread)
            /\ bpc' = "loop"
            /\ UNCHANGED <<current_customer, haircut_start_time>>
    /\ UNCHANGED <<arrival_speed, waiting, served, left, barber_status,
                   syncVars, cid, remaining, cpc, genVars, histVars, paceVars>>

\* The haircut is not counted.
BarberCount_Forgets ==
    /\ bpc = "count"
    /\ servedOrder' = Append(servedOrder, cid)
    /\ bpc' = "status"
    /\ UNCHANGED <<shopVars, lock, syncVars, cid, remaining, cpc, genVars,
                   admitOrder, chairOrder, leftOrder, spawnedAtStop,
                   paceVars>>

\* state.served += 1
BarberCount ==
    /\ bpc = "count"
    /\ served' = served + 1
    /\ servedOrder' = Append(servedOrder, cid)
    /\ bpc' = "status"
    /\ UNCHANGED <<arrival_speed, waiting, left, barber_status, current_customer,
                   haircut_start_time, lock, syncVars, cid, remaining, cpc,
                   genVars, admitOrder, chairOrder, leftOrder, spawnedAtStop,
                   paceVars>>

\* state.barber_status = "sleeping" if not state.waiting else "cutting"
BarberStatus ==
    /\ bpc = "status"
    /\ barber_status' = StatusAfterCut(waiting)
    /\ Release(BarberThread)
    /\ bpc' = "loop"
    /\ UNCHANGED <<arrival_speed, waiting, served, left, current_customer,
                   haircut_start_time, syncVars, cid, remaining, cpc, genVars,
                   histVars, paceVars>>

Barber ==
    \/ BarberLoop \/ BarberExit \/ BarberAcquire \/ BarberTimeout
    \/ BarberIdleLock \/ BarberIdle \/ BarberDeqLock \/ BarberDequeue
    \/ BarberMark \/ BarberSeat \/ BarberSignal
    \/ BarberCutSlice \/ BarberCutEnd \/ BarberFinLock \/ BarberFinish
    \/ BarberCount \/ BarberStatus

\* --------------------------------------------------------- customer_worker
\* with state.lock:
CustomerLock(i) ==
    /\ cpc[i] = "enter"
    /\ Acquire(i)
    /\ cpc' = [cpc EXCEPT ![i] = "admission"]
    /\ UNCHANGED <<shopVars, syncVars, barberVars, genVars, histVars, paceVars>>

\* if len(state.waiting) < state.capacity:
CustomerAdmission(i) ==
    /\ cpc[i] = "admission"
    /\ cpc' = [cpc EXCEPT ![i] = IF CanAdmit(waiting) THEN "append" ELSE "reject"]
    /\ UNCHANGED <<shopVars, lock, syncVars, barberVars, genVars,
                   histVars, paceVars>>

\* state.waiting.append(cid); admitted = True
CustomerAppend(i) ==
    /\ cpc[i] = "append"
    /\ waiting' = Append(waiting, i)
    /\ admitOrder' = Append(admitOrder, i)
    /\ Release(i)
    /\ cpc' = [cpc EXCEPT ![i] = "notify"]
    /\ UNCHANGED <<arrival_speed, served, left, barber_status, current_customer,
                   haircut_start_time, syncVars, barberVars, genVars,
                   chairOrder, servedOrder, leftOrder, spawnedAtStop,
                   paceVars>>

\* state.left += 1; admitted = False; if not admitted: return
CustomerReject(i) ==
    /\ cpc[i] = "reject"
    /\ left' = left + 1
    /\ leftOrder' = Append(leftOrder, i)
    /\ Release(i)
    /\ cpc' = [cpc EXCEPT ![i] = "rejected"]
    /\ UNCHANGED <<arrival_speed, waiting, served, barber_status,
                   current_customer, haircut_start_time, syncVars, barberVars,
                   genVars, admitOrder, chairOrder, servedOrder, spawnedAtStop,
                   paceVars>>

\* The arrival is never signalled.
CustomerNotify_Lost(i) ==
    /\ cpc[i] = "notify"
    /\ cpc' = [cpc EXCEPT ![i] = "wait"]
    /\ UNCHANGED <<shopVars, lock, syncVars, barberVars, genVars,
                   histVars, paceVars>>

\* customers_sem.release()
CustomerNotify(i) ==
    /\ cpc[i] = "notify"
    /\ customers_sem' = customers_sem + 1
    /\ cpc' = [cpc EXCEPT ![i] = "wait"]
    /\ UNCHANGED <<shopVars, lock, barber_sem, stop_event, barberVars, genVars,
                   histVars, paceVars>>

\* while not stop_event.is_set():
CustomerWait(i) ==
    /\ cpc[i] = "wait" /\ ~stop_event
    /\ cpc' = [cpc EXCEPT ![i] = "ready_acquire"]
    /\ UNCHANGED <<shopVars, lock, syncVars, barberVars, genVars,
                   histVars, paceVars>>

\* the wait loop's condition fails: the thread returns without a ready unit
CustomerCancelled(i) ==
    /\ cpc[i] = "wait" /\ stop_event
    /\ cpc' = [cpc EXCEPT ![i] = "cancelled"]
    /\ UNCHANGED <<shopVars, lock, syncVars, barberVars, genVars,
                   histVars, paceVars>>

\* The customer vacates the chair itself once it is ready.
CustomerReady_ResetsChair(i) ==
    /\ cpc[i] = "ready_acquire" /\ barber_sem > 0
    /\ barber_sem' = barber_sem - 1
    /\ current_customer' = None
    /\ cpc' = [cpc EXCEPT ![i] = "ready"]
    /\ UNCHANGED <<arrival_speed, waiting, served, left, barber_status,
                   haircut_start_time, lock, customers_sem, stop_event,
                   barberVars, genVars, histVars, paceVars>>

\* if barber_sem.acquire(timeout=0.1): break
CustomerReady(i) ==
    /\ cpc[i] = "ready_acquire" /\ barber_sem > 0
    /\ barber_sem' = barber_sem - 1
    /\ cpc' = [cpc EXCEPT ![i] = "ready"]
    /\ UNCHANGED <<shopVars, lock, customers_sem, stop_event, barberVars,
                   genVars, histVars, paceVars>>

\* An acquire without timeout: it blocks while the count is zero.
CustomerReadyTimeout_Blocks(i) ==
    /\ cpc[i] = "ready_acquire" /\ barber_sem < 0
    /\ cpc' = [cpc EXCEPT ![i] = "wait"]
    /\ UNCHANGED <<shopVars, lock, syncVars, barberVars, genVars,
                   histVars, paceVars>>

\* ... the wait timed out with the count at zero
CustomerReadyTimeout(i) ==
    /\ cpc[i] = "ready_acquire" /\ barber_sem = 0
    /\ cpc' = [cpc EXCEPT ![i] = "wait"]
    /\ UNCHANGED <<shopVars, lock, syncVars, barberVars, genVars,
                   histVars, paceVars>>

Customer(i) ==
    \/ CustomerLock(i) \/ CustomerAdmission(i) \/ CustomerAppend(i)
    \/ CustomerReject(i) \/ CustomerNotify(i)
    \/ CustomerWait(i) \/ CustomerCancelled(i)
    \/ CustomerReady(i) \/ CustomerReadyTimeout(i)

\* -------------------------------------------------------- generator_worker
\* The loop never looks at stop_event.
GeneratorLoop_IgnoresStop ==
    /\ gpc = "loop"
    /\ gpc' = "speed_lock"
    /\ UNCHANGED <<shopVars, lock, syncVars, barberVars, cpc, counter, speed,
                   histVars, paceVars>>

\* while not stop_event.is_set():
GeneratorLoop ==
    /\ gpc = "loop" /\ ~stop_event
    /\ gpc' = "speed_lock"
    /\ UNCHANGED <<shopVars, lock, syncVars, barberVars, cpc, counter, speed,
                   histVars, paceVars>>

GeneratorExit ==
    /\ gpc = "loop" /\ stop_event
    /\ gpc' = "exit"
    /\ UNCHANGED <<shopVars, lock, syncVars, barberVars, cpc, counter, speed,
                   histVars, paceVars>>

GeneratorSpeedLock ==
    /\ gpc = "speed_lock"
    /\ Acquire(GeneratorThread)
    /\ gpc' = "speed"
    /\ UNCHANGED <<shopVars, syncVars, barberVars, cpc, counter, speed,
                   histVars, paceVars>>

\* with state.lock: speed = state.arrival_speed
GeneratorSpeed ==
    /\ gpc = "speed"
    /\ speed' = arrival_speed
    /\ Release(GeneratorThread)
    /\ gpc' = "pace"
    /\ UNCHANGED <<shopVars, syncVars, barberVars, cpc, counter,
                   histVars, paceVars>>

\* if now < next_emit: sleep; continue   (the clock is outside this
\* specification: either outcome of the comparison may be the one taken)
GeneratorSleep ==
    /\ gpc = "pace"
    /\ gpc' = "loop"
    /\ UNCHANGED <<shopVars, lock, syncVars, barberVars, cpc, counter, speed,
                   histVars, paceVars>>

\* now >= next_emit:
\* cid = next(counter); Thread(target=customer_worker, ...).start()
GeneratorSpawn ==
    /\ gpc = "pace"
    /\ counter <= MaxCustomers
    /\ cpc' = [cpc EXCEPT ![counter] = "enter"]
    /\ counter' = counter + 1
    /\ gpc' = "loop"
    /\ UNCHANGED <<shopVars, lock, syncVars, barberVars, speed,
                   histVars, paceVars>>

Generator ==
    \/ GeneratorLoop \/ GeneratorExit \/ GeneratorSpeedLock \/ GeneratorSpeed
    \/ GeneratorSleep \/ GeneratorSpawn

\* --------------------------------------------------------------- run_curses
\* 'q' pressed: the input loop breaks and stop_event.set() runs.
Quit ==
    /\ ~stop_event
    /\ stop_event' = TRUE
    /\ spawnedAtStop' = counter - 1
    /\ UNCHANGED <<shopVars, lock, customers_sem, barber_sem, barberVars, cpc,
                   genVars, admitOrder, chairOrder, servedOrder, leftOrder,
                   paceVars>>

\* ------------------------------------------------ the generator under a clock
\* speed_to_interval = {1: 2.0, 2: 1.0, 3: 0.6, 4: 0.4, 5: 0.25}, in units of
\* 0.05 s; .get(speed, 0.6) for any other value
Interval(s) ==
    CASE s = 1 -> 40
      [] s = 2 -> 20
      [] s = 3 -> 12
      [] s = 4 -> 8
      [] s = 5 -> 5
      [] OTHER -> 12

\* elif ch in (ord('1'), ord('2'), ord('3'), ord('4'), ord('5')):
Keys == 1..5

\* Time passes: between any two statements, and in time.sleep().
Tick ==
    /\ clock < MaxClock
    /\ clock' = clock + 1
    /\ UNCHANGED <<shopVars, lock, syncVars, barberVars, cpc, genVars, histVars,
                   next_emit, upc, ch, emitLog>>

\* ch = stdscr.getch() returned a digit 1-5; with state.lock:
KeyLock(k) ==
    /\ upc = "input" /\ ~stop_event
    /\ Acquire(UiThread)
    /\ ch' = k
    /\ upc' = "set"
    /\ UNCHANGED <<shopVars, syncVars, barberVars, cpc, genVars, histVars,
                   clock, next_emit, emitLog>>

\* state.arrival_speed = int(chr(ch))
KeySet ==
    /\ upc = "set"
    /\ arrival_speed' = ch
    /\ Release(UiThread)
    /\ upc' = "input"
    /\ UNCHANGED <<waiting, served, left, barber_status, current_customer,
                   haircut_start_time, syncVars, barberVars, cpc, genVars,
                   histVars, clock, next_emit, ch, emitLog>>

\* now = time.monotonic(); if now < next_emit: time.sleep(...); continue
GeneratorTimedSleep ==
    /\ gpc = "pace"
    /\ LET now == clock IN now < next_emit
    /\ gpc' = "loop"
    /\ UNCHANGED <<shopVars, lock, syncVars, barberVars, cpc, counter, speed,
                   histVars, clock, next_emit, upc, ch, emitLog>>

\* The next emission is scheduled from the previous schedule, not from now.
GeneratorTimedSpawn_FixedGrid ==
    /\ gpc = "pace"
    /\ counter <= MaxCustomers
    /\ LET now == clock IN
         /\ ~(now < next_emit)
         /\ next_emit' = next_emit + Interval(speed)
         /\ emitLog' = Append(emitLog, [now |-> now, speed |-> speed])
    /\ cpc' = [cpc EXCEPT ![counter] = "enter"]
    /\ counter' = counter + 1
    /\ gpc' = "loop"
    /\ UNCHANGED <<shopVars, lock, syncVars, barberVars, speed, histVars,
                   clock, upc, ch>>

\* now = time.monotonic(); now >= next_emit:
\* cid = next(counter); Thread(target=customer_worker, ...).start()
\* next_emit = now + interval
GeneratorTimedSpawn ==
    /\ gpc = "pace"
    /\ counter <= MaxCustomers
    /\ LET now == clock IN
         /\ ~(now < next_emit)
         /\ next_emit' = now + Interval(speed)
         /\ emitLog' = Append(emitLog, [now |-> now, speed |-> speed])
    /\ cpc' = [cpc EXCEPT ![counter] = "enter"]
    /\ counter' = counter + 1
    /\ gpc' = "loop"
    /\ UNCHANGED <<shopVars, lock, syncVars, barberVars, speed, histVars,
                   clock, upc, ch>>

Next ==
    \/ BarberLoop \/ BarberExit \/ BarberAcquire \/ BarberTimeout
    \/ BarberIdleLock \/ BarberIdle \/ BarberDeqLock \/ BarberDequeue
    \/ BarberMark \/ BarberSeat \/ BarberSignal
    \/ BarberCutSlice \/ BarberCutEnd \/ BarberFinLock \/ BarberFinish
    \/ BarberCount \/ BarberStatus
    \/ \E i \in CustomerIds :
          \/ CustomerLock(i) \/ CustomerAdmission(i) \/ CustomerAppend(i)
          \/ CustomerReject(i) \/ CustomerNotify(i)
          \/ CustomerWait(i) \/ CustomerCancelled(i)
          \/ CustomerReady(i) \/ CustomerReadyTimeout(i)
    \/ GeneratorLoop \/ GeneratorExit \/ GeneratorSpeedLock \/ GeneratorSpeed
    \/ GeneratorSleep \/ GeneratorSpawn
    \/ Quit

Spec == Init /\ [][Next]_vars

\* A run in which shutdown is never requested: 'q' is not pressed, so the
\* branches taken only when stop_event is set are left out.  Every thread
\* that can take a step again and again eventually takes one; the lock is
\* held only for the few statements of a block, between waits of 50-100 ms.
NextRunning ==
    \/ BarberLoop \/ BarberAcquire \/ BarberTimeout
    \/ BarberIdleLock \/ BarberIdle \/ BarberDeqLock \/ BarberDequeue
    \/ BarberMark \/ BarberSeat \/ BarberSignal
    \/ BarberCutSlice \/ BarberCutEnd \/ BarberFinLock \/ BarberFinish
    \/ BarberCount \/ BarberStatus
    \/ \E i \in CustomerIds :
          \/ CustomerLock(i) \/ CustomerAdmission(i) \/ CustomerAppend(i)
          \/ CustomerReject(i) \/ CustomerNotify(i)
          \/ CustomerWait(i)
          \/ CustomerReady(i) \/ CustomerReadyTimeout(i)
    \/ GeneratorLoop \/ GeneratorSpeedLock \/ GeneratorSpeed
    \/ GeneratorSleep \/ GeneratorSpawn

LiveSpec ==
    /\ Init
    /\ [][NextRunning]_vars
    /\ SF_vars(Barber)
    /\ SF_vars(Generator)
    /\ \A i \in CustomerIds : SF_vars(Customer(i))

\* Any run, shutdown included, in which every thread that stays able to take
\* a step eventually takes one.  Nothing obliges 'q' to be pressed.
FairSpec ==
    /\ Init
    /\ [][Next]_vars
    /\ WF_vars(Barber)
    /\ WF_vars(Generator)
    /\ \A i \in CustomerIds : WF_vars(Customer(i))

\* ================================================================= claims
Range(s) == {s[k] : k \in 1..Len(s)}
NoDuplicates(s) == \A j, k \in 1..Len(s) : s[j] = s[k] => j = k
\* x occurs in s at an earlier position than y.
Before(s, x, y) == \E j, k \in 1..Len(s) : j < k /\ s[j] = x /\ s[k] = y

\* Customers the generator has started, and those whose thread has returned.
Spawned == counter - 1
Returned(i) == cpc[i] \in {"rejected", "ready", "cancelled"}
AllReturned == \A i \in CustomerIds : cpc[i] = "unborn" \/ Returned(i)
\* Customers past the locked admission block.
Decided(i) == cpc[i] \in {"notify", "wait", "ready_acquire", "rejected",
                          "ready", "cancelled"}
NumDecided == Cardinality({i \in CustomerIds : Decided(i)})
InChair == IF current_customer = None THEN 0 ELSE 1

\* C1: in every reachable state the waiting queue holds at most capacity
\* customers (and, being a sequence, at least 0).
C1_CapacityBound == 0 <= Len(waiting) /\ Len(waiting) <= Capacity

\* A customer has been turned away from a full room.
C1_Witness == Len(waiting) = Capacity /\ left >= 1

\* C2 as stated: whenever every started customer thread has returned (seen
\* with the lock released), served + left equals the number spawned.
C2_ConservationAtReturn ==
    (LockFree /\ AllReturned) => served + left = Spawned

\* C2 amended: whenever every started customer thread has returned and nobody
\* is left in the waiting room or in the chair (seen with the lock released),
\* served + left equals the number spawned.
C2_ConservationSettled ==
    (LockFree /\ AllReturned /\ waiting = <<>> /\ current_customer = None)
        => served + left = Spawned

\* Every customer was spawned and has returned, some served and some rejected.
C2_Witness ==
    /\ LockFree /\ AllReturned /\ waiting = <<>> /\ current_customer = None
    /\ Spawned = MaxCustomers /\ served >= 1 /\ left >= 1

\* C3: the customer in the chair is never also in the waiting queue.
C3_Exclusive ==
    current_customer # None => current_customer \notin Range(waiting)

\* A haircut is under way while others wait.
C3_Witness == current_customer # None /\ waiting # <<>>

\* C4: customers reach the chair, and are counted served, in the order in
\* which they were appended to waiting.
C4_Fifo ==
    \A a, b \in CustomerIds :
        Before(admitOrder, a, b) =>
            /\ ~Before(chairOrder, b, a)
            /\ ~Before(servedOrder, b, a)
            /\ (b \in Range(chairOrder) => a \in Range(chairOrder))
            /\ (b \in Range(servedOrder) => a \in Range(servedOrder))

\* Two customers admitted against their spawn order have both been served.
C4_Witness ==
    /\ Len(servedOrder) >= 2
    /\ Before(admitOrder, 2, 1)

\* C5: while the barber has dequeued nobody, once capacity + 1 customers have
\* made their admission decision exactly capacity of them are in waiting and
\* exactly one was rejected.
C5_Rejection ==
    (cid = None /\ NumDecided = Capacity + 1)
        => Len(waiting) = Capacity /\ left = 1

\* capacity + 1 customers have decided before the barber's first dequeue.
C5_Witness == cid = None /\ NumDecided = Capacity + 1 /\ LockFree

\* C6: with shutdown never requested and fair scheduling, every spawned
\* customer is eventually either counted in left or counted in served.
C6_NoCustomerLost ==
    \A i \in CustomerIds :
        (cpc[i] # "unborn") ~> (i \in Range(leftOrder) \/ i \in Range(servedOrder))

\* Every customer id was spawned and has its outcome, some on each side.
C6_Witness ==
    /\ Spawned = MaxCustomers
    /\ \A i \in CustomerIds : i \in Range(leftOrder) \/ i \in Range(servedOrder)
    /\ leftOrder # <<>> /\ servedOrder # <<>>

\* C7: each id reaches the chair at most once, is counted served at most once
\* and only after reaching the chair, is counted left at most once and only if
\* it was never admitted; served and left count exactly those events.
C7_NoDoubleCount ==
    /\ NoDuplicates(admitOrder) /\ NoDuplicates(chairOrder)
    /\ NoDuplicates(servedOrder) /\ NoDuplicates(leftOrder)
    /\ Range(servedOrder) \subseteq Range(chairOrder)
    /\ Range(chairOrder) \subseteq Range(admitOrder)
    /\ Range(leftOrder) \cap Range(admitOrder) = {}
    /\ served = Len(servedOrder)
    /\ left = Len(leftOrder)

\* Two haircuts counted and one customer turned away.
C7_Witness == served >= 2 /\ left >= 1

\* C8: seen with the lock released, a customer in the chair implies that the
\* barber's status is "cutting".
C8_ChairImpliesCutting ==
    LockFree => (current_customer # None => barber_status = "cutting")

\* A second haircut is under way, the lock released.
C8_Witness ==
    LockFree /\ current_customer # None /\ bpc = "cut" /\ served >= 1

\* C9 as stated: seen with the lock released, status "cutting" implies a
\* customer in the chair.
C9_CuttingImpliesChair ==
    LockFree => (barber_status = "cutting" => current_customer # None)

\* C9 amended: seen with the lock released, status "cutting" implies a
\* customer in the chair or, between two haircuts, customers still waiting.
C9_CuttingImpliesChairOrQueue ==
    LockFree =>
        (barber_status = "cutting" =>
            current_customer # None \/ waiting # <<>>)

\* Between two haircuts: shown cutting, the chair empty, the next one waiting.
C9_Witness ==
    /\ LockFree /\ barber_status = "cutting" /\ current_customer = None
    /\ waiting # <<>> /\ served >= 1

\* C10 as stated: a customer thread that got a ready unit from barber_sem is
\* one the barber has put in the chair, and is no longer in waiting.
C10_RendezvousAddressed ==
    \A i \in CustomerIds :
        cpc[i] = "ready" => i \in Range(chairOrder) /\ i \notin Range(waiting)

\* Threads that have run to their end.
Terminated(i) == cpc[i] \in {"unborn", "rejected", "ready", "cancelled"}
AllTerminated ==
    /\ bpc = "exit" /\ gpc = "exit"
    /\ \A i \in CustomerIds : Terminated(i)

\* C11: once stop_event is set, under fair scheduling the barber, the
\* generator and every customer thread eventually terminate, wherever they
\* were and whatever waiting and the semaphores hold.
C11_Cancellation == stop_event ~> AllTerminated

\* Everything has wound down with a customer cancelled in its ready wait and
\* its id still in waiting.
C11_Witness ==
    /\ stop_event /\ AllTerminated
    /\ \E i \in CustomerIds : cpc[i] = "cancelled" /\ i \in Range(waiting)

\* C12 as stated: in a state where stop_event is set no customer thread is
\* spawned and no id is appended to waiting.
C12_NothingAfterStop ==
    [][stop_event => (counter' = counter /\ admitOrder' = admitOrder)]_vars

\* C12 amended: after stop_event is set the generator spawns at most one more
\* customer (the iteration that had already passed its stop check); threads
\* already started still make their admission decision.
C12_AtMostOneSpawnAfterStop ==
    stop_event => Spawned <= spawnedAtStop + 1

\* A customer spawned after stop_event was set sits in waiting.
C12_Witness ==
    /\ stop_event /\ Spawned = spawnedAtStop + 1
    /\ Spawned \in Range(waiting)

\* C13: no thread holds the lock while it waits on a semaphore or sleeps
\* through a haircut slice, and whoever holds the lock can always take its
\* next step, so barber and customer never wait on each other across the lock.
C13_LockDiscipline ==
    /\ bpc \in {"acquire", "cut"} => lock # BarberThread
    /\ \A i \in CustomerIds :
          cpc[i] \in {"wait", "ready_acquire"} => lock # i
    /\ lock = BarberThread => ENABLED Barber
    /\ lock = GeneratorThread => ENABLED Generator
    /\ \A i \in CustomerIds : lock = i => ENABLED Customer(i)

\* The barber sleeps through a haircut and a customer polls barber_sem while
\* another customer is inside its admission block.
C13_Witness ==
    /\ bpc = "cut" /\ lock \in CustomerIds
    /\ \E j \in CustomerIds : cpc[j] = "ready_acquire"

\* C14: whenever the barber is at the finish step, after a haircut that ran
\* to its end or was cut short by shutdown, current_customer is the id it
\* dequeued, so the completion is never skipped.
C14_NoStaleCompletion ==
    bpc \in {"cut", "fin_lock", "finish"} =>
        cid # None /\ current_customer = cid

\* The barber is at the finish step of a haircut that shutdown cut short.
C14_Witness == bpc = "finish" /\ stop_event /\ remaining > 0

\* The barber is inside the locked finish block (lines 72-78).
InFinishBlock == bpc \in {"finish", "count", "status"}

\* C15: the finish block runs as one unit under the lock: no step of any
\* thread taken while the barber is inside it changes waiting or left, the
\* barber keeps the lock until the last statement, and its statements clear
\* current_customer and haircut_start_time, add exactly 1 to served, and set
\* the status to "sleeping" exactly when waiting is empty, "cutting" otherwise.
C15_FinishEffect ==
    [][InFinishBlock =>
        /\ waiting' = waiting /\ left' = left
        /\ bpc' = bpc => /\ UNCHANGED shopVars
                         /\ lock' = BarberThread
        /\ bpc = "finish" /\ bpc' # bpc =>
              /\ bpc' = "count" /\ lock' = BarberThread
              /\ current_customer' = None /\ haircut_start_time' = None
              /\ served' = served /\ barber_status' = barber_status
        /\ bpc = "count" /\ bpc' # bpc =>
              /\ bpc' = "status" /\ lock' = BarberThread
              /\ served' = served + 1
              /\ current_customer' = None /\ haircut_start_time' = None
              /\ barber_status' = barber_status
        /\ bpc = "status" /\ bpc' # bpc =>
              /\ bpc' = "loop" /\ lock' = None
              /\ served' = served
              /\ current_customer' = None /\ haircut_start_time' = None
              /\ (barber_status' = "sleeping") <=> (waiting = <<>>)
              /\ (barber_status' = "cutting") <=> (waiting # <<>>)
    ]_vars

\* A second haircut has been completed with nobody waiting: the block has
\* run both with a non-empty and with an empty queue behind it.
C15_Witness ==
    /\ bpc = "loop" /\ LockFree
    /\ served >= 2 /\ current_customer = None /\ haircut_start_time = None
    /\ barber_status = "sleeping" /\ waiting = <<>>
    /\ left >= 1

\* The step is taken by customer thread i, the barber thread, the generator.
CustomerStep(i) == cpc[i] # "unborn" /\ cpc'[i] # cpc[i]
BarberStep == bpc' # bpc \/ remaining' # remaining
GeneratorStep == gpc' # gpc

\* C16: a customer thread changes shared shop state only by appending its own
\* id to waiting or by adding 1 to left, once and never both; the barber never
\* changes left and removes from waiting only at the front; the generator
\* changes no shop field; served and left never decrease.
C16_WriteOwnership ==
    [][/\ \A i \in CustomerIds : CustomerStep(i) =>
            /\ UNCHANGED <<arrival_speed, served, barber_status,
                           current_customer, haircut_start_time>>
            /\ \/ waiting' = waiting /\ left' = left
               \/ /\ waiting' = Append(waiting, i) /\ left' = left
                  /\ i \notin Range(admitOrder) \cup Range(leftOrder)
               \/ /\ waiting' = waiting /\ left' = left + 1
                  /\ i \notin Range(admitOrder) \cup Range(leftOrder)
       /\ BarberStep =>
            /\ left' = left /\ arrival_speed' = arrival_speed
            /\ \/ waiting' = waiting
               \/ waiting # <<>> /\ waiting' = Tail(waiting)
       /\ GeneratorStep => UNCHANGED shopVars
       /\ served' >= served /\ left' >= left
    ]_vars

\* All three kinds of write have happened with a customer still queued.
C16_Witness == served >= 1 /\ left >= 1 /\ waiting # <<>>

\* Arrival tokens: units of customers_sem, customers that have appended their
\* id and not yet released customers_sem, and the unit the barber has acquired
\* and not yet spent on a dequeue.
ArrivalTokens ==
    customers_sem
    + Cardinality({i \in CustomerIds : cpc[i] = "notify"})
    + (IF bpc \in {"deq_lock", "dequeue"} THEN 1 ELSE 0)

\* C18: in every reachable state len(waiting) equals the number of arrival
\* tokens, so the barber that enters the dequeue step after a successful
\* acquire finds waiting non-empty and never takes the spurious-wake branch.
C18_TokenAccounting ==
    /\ Len(waiting) = ArrivalTokens
    /\ bpc = "dequeue" => waiting # <<>>

\* The barber is at the dequeue step holding one token while a customer that
\* has appended its id has not yet released customers_sem.
C18_Witness ==
    /\ bpc = "dequeue" /\ Len(waiting) = Capacity
    /\ \E i \in CustomerIds : cpc[i] = "notify"

\* Nobody waits and nobody is in the chair.
EmptyShop == waiting = <<>> /\ current_customer = None

\* C19 as stated: in every reachable state, a barber shown as cutting with an
\* empty chair has a customer waiting (an empty shop shows "sleeping").
C19_NeverCuttingInEmptyShop == EmptyShop => barber_status = "sleeping"

\* C19, amended: in every state observable with the lock released an empty
\* shop shows "sleeping", and the timeout branch of the barber loop never
\* changes barber_status.
C19_NeverCuttingInEmptyShopObservable ==
    [][/\ LockFree /\ EmptyShop => barber_status = "sleeping"
       /\ (LockFree /\ EmptyShop)' => barber_status' = "sleeping"
       /\ bpc = "idle" /\ bpc' # bpc => barber_status' = barber_status
    ]_vars

\* The timeout branch has just run while the barber was shown as cutting: the
\* chair is empty and a customer that has not yet announced itself is queued.
C19_Witness ==
    /\ bpc = "idle" /\ barber_status = "cutting"
    /\ current_customer = None /\ waiting # <<>>

\* C20: once the barber thread has terminated, current_customer is None and
\* served equals the number of customers ever dequeued: a haircut interrupted
\* by shutdown is still recorded.
C20_InterruptedHaircutRecorded ==
    bpc = "exit" =>
        /\ current_customer = None
        /\ served = Len(chairOrder)
        /\ Len(servedOrder) = Len(chairOrder)

\* The barber has exited after a haircut that shutdown cut short.
C20_Witness ==
    /\ bpc = "exit" /\ served >= 1 /\ remaining > 0
    /\ current_customer = None

\* The generator thread and the input loop under the clock, while the shop
\* runs.  The barber and the customers are left out: the generator shares
\* only the lock with them, and waiting for the lock is time passing.
TimedNext ==
    \/ Tick
    \/ \E k \in Keys : KeyLock(k)
    \/ KeySet
    \/ GeneratorLoop \/ GeneratorSpeedLock \/ GeneratorSpeed
    \/ GeneratorTimedSleep \/ GeneratorTimedSpawn

TimedSpec == Init /\ [][TimedNext]_vars

\* C17: a customer spawned in an iteration that read the clock as t and the
\* speed as s is followed by no spawn before t + interval(s), whatever is
\* written to arrival_speed in between.
C17_Pacing ==
    \A k \in 1..Len(emitLog) : \A m \in 1..Len(emitLog) :
        k < m =>
            emitLog[m].now >= emitLog[k].now + Interval(emitLog[k].speed)

\* The speed was changed from 3 to 5 between two spawns: the second one came
\* at the time scheduled under speed 3, the third one interval(5) after it.
C17_Witness ==
    /\ Len(emitLog) = 3
    /\ emitLog[1].speed = 3 /\ emitLog[2].speed = 5
    /\ emitLog[2].now = emitLog[1].now + Interval(3)
    /\ emitLog[3].now = emitLog[2].now + Interval(5)

=============================================================================
